---- MODULE Spec2Model ----
(***************************************************************************)
(* A model of the fabrix bootstrapper core:                                *)
(*   - the Configuration store (src/lib/Configuration.ts): a Map from      *)
(*     dotted keys to JavaScript values, built by flattening a merged      *)
(*     tree, with set / merge / freeze / unfreeze and the read proxy;      *)
(*   - the lifecycle wiring of Core (src/unnamed/part_002): the listeners  *)
(*     bound per spool and per phase, run as promise reaction jobs.        *)
(* JavaScript objects have identity: the store's values are references     *)
(* into a heap, so that aliasing between a composite value and the         *)
(* entries flattened out of it is what the code makes it.                  *)
(***************************************************************************)
EXTENDS Integers, Sequences, FiniteSets, TLC

\* ------------------------------------------------------------------------
\* Bounds of the model
\* ------------------------------------------------------------------------

\* leaf numbers of the input trees are 0..MaxVal
MaxVal == 1
\* an input tree has at most MaxNodes properties in all (nested ones included)
MaxNodes == 2
\* calls made on the store by its caller in one run of SpecConfig
MaxOps == 4
\* nesting of the tree a run of SpecConfig builds its store from
MaxDepth == 3
\* calls made on the store in one run of SpecMerge
MaxMergeOps == 2

\* spools an application registers
MaxSpools == 2
\* emissions, in one run, of a signal that has already been emitted
MaxAgain == 1

\* property names of the input trees
Names == <<"a", "b">>

\* ------------------------------------------------------------------------
\* JavaScript values
\* ------------------------------------------------------------------------

Undef == [t |-> "undef", v |-> 0, s |-> ""]
Null == [t |-> "null", v |-> 0, s |-> ""]
Num(n) == [t |-> "num", v |-> n, s |-> ""]
Bool(b) == [t |-> "bool", v |-> IF b THEN 1 ELSE 0, s |-> ""]
Str(x) == [t |-> "str", v |-> 0, s |-> x]
\* a reference to the heap object with identity id
Ref(id) == [t |-> "ref", v |-> id, s |-> ""]

IsRef(x) == x.t = "ref"

\* ------------------------------------------------------------------------
\* Object literals (the trees a caller writes down), before they are
\* objects of the heap: a leaf, or an object / array with ordered
\* properties kids = << <<name, node>>, ... >>
\* ------------------------------------------------------------------------

LeafN(x) == [t |-> x.t, v |-> x.v, s |-> x.s, kids |-> <<>>]
ObjN(kids) == [t |-> "obj", v |-> 0, s |-> "", kids |-> kids]
ArrN(items) == [t |-> "arr", v |-> 0, s |-> "",
                kids |-> [i \in 1..Len(items) |-> <<ToString(i - 1), items[i]>>]]

IsObjN(n) == n.t \in {"obj", "arr"}

\* ------------------------------------------------------------------------
\* Ordered property lists: << <<key, value>>, ... >>
\* ------------------------------------------------------------------------

IndexKeys == <<"0", "1", "2", "3", "4", "5", "6", "7">>

IsIndexKey(k) == \E i \in 1..Len(IndexKeys) : IndexKeys[i] = k
IndexOfKey(k) == CHOOSE i \in 1..Len(IndexKeys) : IndexKeys[i] = k

HasProp(props, k) == \E i \in 1..Len(props) : props[i][1] = k
PropAt(props, k) == CHOOSE i \in 1..Len(props) : props[i][1] = k
\* obj[k]: undefined when the property is absent
GetProp(props, k) == IF HasProp(props, k) THEN props[PropAt(props, k)][2] ELSE Undef

\* k comes before the property p in the own-property order of an object:
\* array indices first, ascending, then the other keys as they were added
KeyBefore(k, p) ==
    /\ IsIndexKey(k)
    /\ (IsIndexKey(p) => IndexOfKey(k) < IndexOfKey(p))

InsertAt(props, i, e) ==
    SubSeq(props, 1, i - 1) \o <<e>> \o SubSeq(props, i, Len(props))

\* obj[k] = v on an ordinary (not frozen) object
SetProp(props, k, v) ==
    IF HasProp(props, k)
    THEN [props EXCEPT ![PropAt(props, k)] = <<k, v>>]
    ELSE LET later == {i \in 1..Len(props) : KeyBefore(k, props[i][1])}
         IN IF later = {} THEN Append(props, <<k, v>>)
            ELSE InsertAt(props, CHOOSE i \in later : \A j \in later : i <= j, <<k, v>>)

\* ------------------------------------------------------------------------
\* The heap: a sequence of objects, an object's identity is its index
\* ------------------------------------------------------------------------

\* kind: "obj" a plain object, "arr" an array, "box" the wrapper Object(prim)
\* of a primitive; frozen: Object.freeze was applied to it
NewObject(kind, prim) == [kind |-> kind, props |-> <<>>, prim |-> prim, frozen |-> FALSE]

\* obj[k] = v by reference id: ignored on a frozen object (the assignment
\* fails, silently in sloppy mode and with a TypeError in strict mode)
HeapWrite(h, id, k, v) ==
    IF h[id].frozen THEN h
    ELSE [h EXCEPT ![id].props = SetProp(h[id].props, k, v)]

\* evaluating an object literal: allocates its objects, the parent before
\* its children; the result is the heap and the literal's value
RECURSIVE Alloc(_, _)
RECURSIVE AllocKids(_, _, _)
Alloc(h, node) ==
    IF ~IsObjN(node) THEN [heap |-> h, val |-> [t |-> node.t, v |-> node.v, s |-> node.s]]
    ELSE LET id == Len(h) + 1
             r == AllocKids(Append(h, NewObject(node.t, Undef)), node.kids, <<>>)
         IN [heap |-> [r.heap EXCEPT ![id].props = r.props], val |-> Ref(id)]
AllocKids(h, kids, acc) ==
    IF kids = <<>> THEN [heap |-> h, props |-> acc]
    ELSE LET r == Alloc(h, Head(kids)[2])
         IN AllocKids(r.heap, Tail(kids), Append(acc, <<Head(kids)[1], r.val>>))

\* the value as a literal again (what a deep comparison sees): references
\* followed to the objects they name
RECURSIVE Deep(_, _)
Deep(h, x) ==
    IF ~IsRef(x) THEN LeafN(x)
    ELSE [t |-> IF h[x.v].kind = "box" THEN "box:" \o h[x.v].prim.t ELSE h[x.v].kind,
          v |-> h[x.v].prim.v, s |-> h[x.v].prim.s,
          kids |-> [i \in 1..Len(h[x.v].props) |->
                       <<h[x.v].props[i][1], Deep(h, h[x.v].props[i][2])>>]]

\* ------------------------------------------------------------------------
\* Configuration.flattenTree (src/lib/Configuration.ts:29-42)
\* ------------------------------------------------------------------------

\* `${k}.${flatKey}`
DotKey(k, flatKey) == k \o "." \o flatKey

\* Object.keys(flatObject).forEach(flatKey => toReturn[`${k}.${flatKey}`] = ...)
RECURSIVE PrefixInto(_, _, _, _)
PrefixInto(toReturn, k, flatObject, j) ==
    IF j > Len(flatObject) THEN toReturn
    ELSE PrefixInto(SetProp(toReturn, DotKey(k, flatObject[j][1]), flatObject[j][2]),
                    k, flatObject, j + 1)

\* Object.entries(tree): the own properties of an object, none of a number
\* or a boolean
Entries(h, tree) == IF IsRef(tree) THEN h[tree.v].props ELSE <<>>

\* a variant of IsObjectValue for which nothing is an object
NeverObjectValue(x) == FALSE

\* typeof v === 'object' && v !== null
IsObjectValue(x) == IsRef(x)

RECURSIVE FlattenTree(_, _)
RECURSIVE FlattenEach(_, _, _, _)
FlattenTree(h, tree) == FlattenEach(h, Entries(h, tree), 1, <<>>)
FlattenEach(h, entries, i, toReturn) ==
    IF i > Len(entries) THEN toReturn
    ELSE LET k == entries[i][1]
             v == entries[i][2]
             withFlat == IF IsObjectValue(v)
                         THEN PrefixInto(toReturn, k, FlattenTree(h, v), 1)
                         ELSE toReturn
         IN FlattenEach(h, entries, i + 1, SetProp(withFlat, k, v))

\* ------------------------------------------------------------------------
\* lodash merge, as Configuration.buildConfig uses it: on literals, since
\* every object it writes to is one it has just created
\* ------------------------------------------------------------------------

\* if (value) ...
Truthy(n) ==
    CASE n.t \in {"undef", "null"} -> FALSE
      [] n.t = "num" -> n.v # 0
      [] n.t = "bool" -> n.v = 1
      [] n.t = "str" -> n.s # ""
      [] OTHER -> TRUE

\* baseMerge(object, source): every property of source, in order.
\* A nested object or array of source is merged, recursively, into the
\* destination's value when that is an object (an array, for an array),
\* and into a new empty one otherwise; any other value of source is
\* assigned, except undefined over an existing key.
RECURSIVE BaseMerge(_, _)
RECURSIVE BaseMergeEach(_, _, _)
BaseMerge(object, source) ==
    IF IsObjN(source) THEN [object EXCEPT !.kids = BaseMergeEach(object.kids, source.kids, 1)]
    ELSE object
BaseMergeEach(kids, srcKids, i) ==
    IF i > Len(srcKids) THEN kids
    ELSE LET key == srcKids[i][1]
             srcValue == srcKids[i][2]
             has == HasProp(kids, key)
             objValue == IF has THEN GetProp(kids, key) ELSE LeafN(Undef)
             newValue ==
                 IF srcValue.t = "arr"
                 THEN BaseMerge(IF objValue.t = "arr" THEN objValue ELSE ArrN(<<>>), srcValue)
                 ELSE IF srcValue.t = "obj"
                 THEN BaseMerge(IF IsObjN(objValue) THEN objValue ELSE ObjN(<<>>), srcValue)
                 ELSE srcValue
             assigned == IF newValue.t = "undef" /\ has THEN kids
                         ELSE SetProp(kids, key, newValue)
         IN BaseMergeEach(assigned, srcKids, i + 1)

\* merge(object, ...sources): a falsy source is skipped
RECURSIVE LodashMerge(_, _)
LodashMerge(object, sources) ==
    IF sources = <<>> THEN object
    ELSE LodashMerge(IF Truthy(Head(sources)) THEN BaseMerge(object, Head(sources)) ELSE object,
                     Tail(sources))

\* ------------------------------------------------------------------------
\* Configuration.initialResources, Configuration.buildConfig
\* ------------------------------------------------------------------------

\* n[k] on a literal: undefined on anything but an object holding k
NodeProp(n, k) == IF IsObjN(n) /\ HasProp(n.kids, k) THEN GetProp(n.kids, k) ELSE LeafN(Undef)

DefaultResources ==
    ArrN(<<LeafN(Str("controllers")), LeafN(Str("policies")), LeafN(Str("services")),
           LeafN(Str("models")), LeafN(Str("resolvers"))>>)

\* "TypeError" when tree.main has no properties to ask (null, undefined),
\* "ConfigValueError" when main.resources is set and is no array
InitialResourcesError(tree) ==
    IF ~HasProp(tree.kids, "main") THEN ""
    ELSE IF NodeProp(tree, "main").t \in {"undef", "null"} THEN "TypeError"
    ELSE IF ~(IsObjN(NodeProp(tree, "main")) /\ HasProp(NodeProp(tree, "main").kids, "resources")) THEN ""
    ELSE IF NodeProp(NodeProp(tree, "main"), "resources").t # "arr" THEN "ConfigValueError"
    ELSE ""

InitialResources(tree) ==
    IF HasProp(tree.kids, "main") /\ IsObjN(NodeProp(tree, "main"))
       /\ HasProp(NodeProp(tree, "main").kids, "resources")
    THEN NodeProp(NodeProp(tree, "main"), "resources")
    ELSE DefaultResources

\* resolve(dirname(requireMainFilename())): the directory of the main module
RootDir == "/app"

\* maxListeners of the template
DefaultMaxListeners == 128

ConfigTemplate(initialConfig) ==
    ObjN(<< <<"main", ObjN(<<
        <<"resources", InitialResources(initialConfig)>>,
        <<"maxListeners", LeafN(Num(DefaultMaxListeners))>>,
        <<"spools", ArrN(<<>>)>>,
        <<"paths", ObjN(<<
            <<"root", LeafN(Str(RootDir))>>,
            <<"temp", LeafN(Str(RootDir \o "/.tmp"))>>,
            <<"sockets", LeafN(Str(RootDir \o "/.tmp/sockets"))>>,
            <<"logs", LeafN(Str(RootDir \o "/.tmp/log"))>> >>)>>,
        <<"freezeConfig", LeafN(Bool(TRUE))>>,
        <<"createPaths", LeafN(Bool(TRUE))>> >>)>> >>)

\* the property name a value is used as: String(nodeEnv)
PropName(x) == IF x.t = "str" THEN x.s ELSE IF x.t = "undef" THEN "undefined" ELSE ToString(x.v)

\* initialConfig.env && initialConfig.env[nodeEnv] || { }
EnvConfig(initialConfig, nodeEnv) ==
    LET env == NodeProp(initialConfig, "env")
    IN IF Truthy(env) /\ Truthy(NodeProp(env, PropName(nodeEnv)))
       THEN NodeProp(env, PropName(nodeEnv))
       ELSE ObjN(<<>>)

BuildConfig(initialConfig, nodeEnv) ==
    LodashMerge(ConfigTemplate(initialConfig),
                <<initialConfig, EnvConfig(initialConfig, nodeEnv),
                  ObjN(<< <<"env", LeafN(nodeEnv)>> >>)>>)

\* ------------------------------------------------------------------------
\* lodash defaultsDeep(object, source), as Configuration.merge uses it:
\* on the heap, since it writes into the object it is given
\* ------------------------------------------------------------------------

\* Object(x): the object itself, a new wrapper of a primitive, a new empty
\* object for undefined and null
ToObject(h, x) ==
    IF IsRef(x) THEN [heap |-> h, val |-> x]
    ELSE IF x.t \in {"undef", "null"}
    THEN [heap |-> Append(h, NewObject("obj", Undef)), val |-> Ref(Len(h) + 1)]
    ELSE [heap |-> Append(h, NewObject("box", x)), val |-> Ref(Len(h) + 1)]

\* baseMerge with customDefaultsMerge: a property of source is taken only
\* where the destination's is undefined; where both are objects the source's
\* is merged into the destination's in place; an object or array taken from
\* source is copied, level by level, never shared
RECURSIVE BaseMergeDefaults(_, _, _)
RECURSIVE BaseMergeDefaultsEach(_, _, _, _, _)
BaseMergeDefaults(h, objId, source) ==
    IF ~IsRef(source) \/ source.v = objId THEN h
    ELSE BaseMergeDefaultsEach(h, objId, source.v, h[source.v].props, 1)
BaseMergeDefaultsEach(h, objId, srcId, keys, i) ==
    IF i > Len(keys) THEN h
    ELSE LET key == keys[i][1]
             srcValue == GetProp(h[srcId].props, key)
             objValue == GetProp(h[objId].props, key)
             newId == Len(h) + 1
             h1 == IF IsRef(srcValue)
                   THEN IF IsRef(objValue) THEN BaseMergeDefaults(h, objValue.v, srcValue)
                        ELSE IF objValue.t # "undef" THEN h
                        ELSE IF h[srcValue.v].kind = "box" THEN HeapWrite(h, objId, key, srcValue)
                        ELSE HeapWrite(BaseMergeDefaults(
                                           Append(h, NewObject(h[srcValue.v].kind, Undef)),
                                           newId, srcValue),
                                       objId, key, Ref(newId))
                   ELSE IF objValue.t # "undef" THEN h
                        ELSE IF srcValue.t # "undef" \/ ~HasProp(h[objId].props, key)
                        THEN HeapWrite(h, objId, key, srcValue)
                        ELSE h
         IN BaseMergeDefaultsEach(h1, objId, srcId, keys, i + 1)

\* if (source) ...: an object is truthy
TruthyValue(x) == IsRef(x) \/ Truthy(x)

DefaultsDeep(h, object, source) ==
    LET o == ToObject(h, object)
    IN [heap |-> IF TruthyValue(source) THEN BaseMergeDefaults(o.heap, o.val.v, source)
                 ELSE o.heap,
        val |-> o.val]

\* ------------------------------------------------------------------------
\* Configuration: the Map and its methods (src/lib/Configuration.ts)
\* ------------------------------------------------------------------------

\* new Map(entries), Map.prototype.set / has / get: a function from keys
MapOf(entries) ==
    [k \in {entries[i][1] : i \in 1..Len(entries)} |-> GetProp(entries, k)]
MapSet(m, k, v) == [x \in DOMAIN m \cup {k} |-> IF x = k THEN v ELSE m[x]]
MapHas(m, k) == k \in DOMAIN m
MapGet(m, k) == IF k \in DOMAIN m THEN m[k] ELSE Undef

\* the constructor: buildConfig, flattenTree, super(configEntries),
\* immutable = false
Constructor(configTree, nodeEnv) ==
    IF InitialResourcesError(configTree) # ""
    THEN [err |-> InitialResourcesError(configTree), heap |-> <<>>, store |-> <<>>,
          immutable |-> FALSE]
    ELSE LET config == Alloc(<<>>, BuildConfig(configTree, nodeEnv))
         IN [err |-> "", heap |-> config.heap,
             store |-> MapOf(FlattenTree(config.heap, config.val)), immutable |-> FALSE]

\* a set that never throws
SetNeverThrows(imm) == FALSE

\* set (key, value): throws IllegalAccessError when immutable
SetThrows(imm) == imm = TRUE
ConfigSet(m, imm, key, value) ==
    IF SetThrows(imm) THEN [err |-> "IllegalAccessError", store |-> m]
    ELSE [err |-> "", store |-> MapSet(m, key, value)]

\* variants of Overwrites: one that never replaces a key the Map has, one
\* that replaces it under "replaceable" too
OverwritesNewOnly(hasKey, configAction) == ~hasKey
OverwritesReplaceable(hasKey, configAction) ==
    ~hasKey \/ configAction \in {"hold", "replaceable"}

\* if (!hasKey || configAction === 'hold') this.set(key, value)
Overwrites(hasKey, configAction) == ~hasKey \/ configAction = "hold"

\* merge (configTree, configAction): the entries of the flattened tree, one
\* after the other; an exception of set ends the call where it is
RECURSIVE MergeEach(_, _, _, _, _, _, _)
MergeEach(h, m, imm, configEntries, i, configAction, result) ==
    IF i > Len(configEntries) THEN [err |-> "", heap |-> h, store |-> m, result |-> result]
    ELSE LET key == configEntries[i][1]
             value == configEntries[i][2]
             hasKey == MapHas(m, key)
             merged == DefaultsDeep(h, MapGet(m, key), value)
             h1 == IF hasKey /\ configAction = "merge" THEN merged.heap ELSE h
             r == IF Overwrites(hasKey, configAction) THEN ConfigSet(m, imm, key, value)
                  ELSE IF configAction = "merge" THEN ConfigSet(m, imm, key, merged.val)
                  ELSE [err |-> "", store |-> m]
         IN IF r.err # "" THEN [err |-> r.err, heap |-> h1, store |-> m, result |-> result]
            ELSE MergeEach(h1, r.store, imm, configEntries, i + 1, configAction,
                           Append(result, [hasKey |-> hasKey, key |-> key]))

ConfigMerge(h, m, imm, configTree, configAction) ==
    MergeEach(h, m, imm, FlattenTree(h, configTree), 1, configAction, <<>>)

\* Object.freeze(x): of an object, shallow; a primitive is returned as it is
ObjectFreeze(h, x) == IF IsRef(x) THEN [h EXCEPT ![x.v].frozen = TRUE] ELSE h

\* ConfigurationProxyHandler.get on the configuration, for a key of the Map:
\* the value is frozen when the configuration is immutable, and wrapped in
\* a Proxy, which only an object can be
ProxyGetFreezes(imm) == imm = TRUE
ProxyGet(h, m, imm, key) ==
    LET value == MapGet(m, key)
    IN [heap |-> IF ProxyGetFreezes(imm) THEN ObjectFreeze(h, value) ELSE h,
        err |-> IF IsRef(value) THEN "" ELSE "TypeError",
        val |-> IF IsRef(value) THEN value ELSE Undef]

\* ConfigurationProxyHandler.get on such a Proxy, whose target is the value
\* itself, an object with no has method: target[key], frozen only if
\* the object has a property immutable that is true
ProxyGetNested(h, id, key) ==
    LET value == GetProp(h[id].props, key)
    IN [heap |-> IF GetProp(h[id].props, "immutable") = Bool(TRUE)
                 THEN ObjectFreeze(h, value) ELSE h,
        val |-> value]

\* ------------------------------------------------------------------------
\* The state
\* ------------------------------------------------------------------------

VARIABLES
    \* the configuration (app.config)
    heap,        \* the objects, by identity
    store,       \* the Map: dotted key -> value
    immutable,   \* Configuration.immutable
    \* the caller of the configuration
    held,        \* the value its last read returned
    err,         \* the exception its last call ended with, "" for none
    lastCall,    \* the method it called last
    nOps,        \* the calls it has made
    atFreeze,    \* the contents of the store when freeze() was last called
    \* the application (the lifecycle)
    spools,      \* per registered spool, its lifecycle.<phase>.listen lists
    stage,       \* per spool, spool.stage
    emits,       \* per signal name, how many times it was emitted
    waits,       \* per promise chain, the pending after(...) it starts from
    pc,          \* per promise chain, the step it is at
    jobs,        \* the queue of promise reaction jobs: chains ready to step
    consoleErrors, \* the chains whose rejection console.error printed
    unhandled,   \* the chains whose rejection was thrown again, to no handler
    \* the caller of after and onceAny
    emitLog,     \* the emissions it made, in order: << <<name, payload>>, ... >>
    calls        \* the calls of after / onceAny it made and what they resolved with

cfgVars == <<heap, store, immutable>>
callerVars == <<held, err, lastCall, nOps, atFreeze>>
appVars == <<spools, stage, emits, waits, pc, jobs, consoleErrors, unhandled, emitLog, calls>>
vars == <<heap, store, immutable, held, err, lastCall, nOps, atFreeze,
          spools, stage, emits, waits, pc, jobs, consoleErrors, unhandled, emitLog, calls>>

\* process.env.NODE_ENV of the run
NodeEnv == Str("development")

\* ------------------------------------------------------------------------
\* The trees a caller passes: objects over Names with number leaves and at
\* most MaxNodes properties in all
\* ------------------------------------------------------------------------

RECURSIVE Cost(_)
RECURSIVE CostKids(_)
Cost(n) == 1 + CostKids(n.kids)
CostKids(kids) == IF kids = <<>> THEN 0 ELSE Cost(Head(kids)[2]) + CostKids(Tail(kids))

LeafNodes == {LeafN(Num(n)) : n \in 0..MaxVal}

RECURSIVE NodeSet(_)
RECURSIVE KidsFrom(_, _)
\* the nodes of cost <= n
NodeSet(n) ==
    IF n <= 0 THEN {}
    ELSE LeafNodes \cup {ObjN(kids) : kids \in {k \in KidsFrom(1, NodeSet(n - 1)) : CostKids(k) <= n - 1}}
\* the property lists with names Names[i..], in that order, values in nodes
KidsFrom(i, nodes) ==
    IF i > Len(Names) THEN {<<>>}
    ELSE LET rest == KidsFrom(i + 1, nodes)
         IN rest \cup {<< <<Names[i], nd>> >> \o r : nd \in nodes, r \in rest}

Trees == {n \in NodeSet(MaxNodes + 1) : n.t = "obj"}

\* the trees of SpecConfig: { }, { a: 0 }, { a: { b: 0 } }, { a: { b: { a: 0 } } }, ...
RECURSIVE ChainFrom(_, _)
ChainFrom(i, d) ==
    IF d = 0 THEN LeafN(Num(0))
    ELSE ObjN(<< <<Names[i], ChainFrom(IF i = Len(Names) THEN 1 ELSE i + 1, d - 1)>> >>)
ChainTrees == {ObjN(<<>>)} \cup {ChainFrom(1, d) : d \in 1..MaxDepth}

\* the keys a caller of SpecConfig sets and reads, the value it writes
SetKeys == {Names[1], DotKey(Names[1], Names[2])}
SetValues == {Num(1)}

\* what a deep comparison of the store sees: key -> literal
DeepStore(h, m) == [k \in DOMAIN m |-> Deep(h, m[k])]

\* ------------------------------------------------------------------------
\* SpecConfig: a caller working on one Configuration
\* ------------------------------------------------------------------------

Call(op, key, val, action, tree) ==
    [op |-> op, key |-> key, val |-> val, action |-> action, tree |-> tree]
NoCall == Call("constructor", "", Undef, "", ObjN(<<>>))

\* no application around the configuration
AppIdle ==
    /\ spools = <<>>
    /\ stage = <<>>
    /\ emits = <<>>
    /\ waits = <<>>
    /\ pc = <<>>
    /\ jobs = <<>>
    /\ consoleErrors = {}
    /\ unhandled = {}
    /\ emitLog = <<>>
    /\ calls = <<>>

\* new Configuration(tree, { NODE_ENV })
Constructed(tree) ==
    LET c == Constructor(tree, NodeEnv)
    IN /\ heap = c.heap
       /\ store = c.store
       /\ immutable = c.immutable
       /\ err = c.err

InitConfig ==
    /\ \E tree \in ChainTrees : Constructed(tree)
    /\ held = Undef
    /\ lastCall = NoCall
    /\ nOps = 0
    /\ atFreeze = <<>>
    /\ AppIdle

\* config.set(key, value)
CallSet(key, value) ==
    /\ nOps < MaxOps
    /\ LET r == ConfigSet(store, immutable, key, value)
       IN /\ store' = r.store
          /\ err' = r.err
    /\ lastCall' = Call("set", key, value, "", ObjN(<<>>))
    /\ nOps' = nOps + 1
    /\ UNCHANGED <<heap, immutable, held, atFreeze>>
    /\ UNCHANGED appVars

MergeActions == {"hold", "merge", "replaceable"}

\* config.merge(tree, configAction), tree an object literal
CallMerge(tree, configAction) ==
    /\ nOps < MaxMergeOps
    /\ LET a == Alloc(heap, tree)
           r == ConfigMerge(a.heap, store, immutable, a.val, configAction)
       IN /\ heap' = r.heap
          /\ store' = r.store
          /\ err' = r.err
    /\ lastCall' = Call("merge", "", Undef, configAction, tree)
    /\ nOps' = nOps + 1
    /\ UNCHANGED <<immutable, held, atFreeze>>
    /\ UNCHANGED appVars

\* config.freeze()
CallFreeze ==
    /\ nOps < MaxOps
    /\ immutable' = TRUE
    /\ atFreeze' = DeepStore(heap, store)
    /\ err' = ""
    /\ lastCall' = Call("freeze", "", Undef, "", ObjN(<<>>))
    /\ nOps' = nOps + 1
    /\ UNCHANGED <<heap, store, held>>
    /\ UNCHANGED appVars

\* config.unfreeze()
CallUnfreeze ==
    /\ nOps < MaxOps
    /\ immutable' = FALSE
    /\ err' = ""
    /\ lastCall' = Call("unfreeze", "", Undef, "", ObjN(<<>>))
    /\ nOps' = nOps + 1
    /\ UNCHANGED <<heap, store, held, atFreeze>>
    /\ UNCHANGED appVars

\* x = config.get(key)
CallGet(key) ==
    /\ nOps < MaxOps
    /\ held' = MapGet(store, key)
    /\ err' = ""
    /\ lastCall' = Call("get", key, Undef, "", ObjN(<<>>))
    /\ nOps' = nOps + 1
    /\ UNCHANGED <<heap, store, immutable, atFreeze>>
    /\ UNCHANGED appVars

\* x = config[key], key a key of the Map
CallProxyGet(key) ==
    /\ nOps < MaxOps
    /\ MapHas(store, key)
    /\ LET r == ProxyGet(heap, store, immutable, key)
       IN /\ heap' = r.heap
          /\ held' = r.val
          /\ err' = r.err
    /\ lastCall' = Call("proxyGet", key, Undef, "", ObjN(<<>>))
    /\ nOps' = nOps + 1
    /\ UNCHANGED <<store, immutable, atFreeze>>
    /\ UNCHANGED appVars

\* x = x[k], x the object read before
CallReadProp(k) ==
    /\ nOps < MaxOps
    /\ IsRef(held)
    /\ LET r == ProxyGetNested(heap, held.v, k)
       IN /\ heap' = r.heap
          /\ held' = r.val
    /\ err' = ""
    /\ lastCall' = Call("readProp", k, Undef, "", ObjN(<<>>))
    /\ nOps' = nOps + 1
    /\ UNCHANGED <<store, immutable, atFreeze>>
    /\ UNCHANGED appVars

\* x[k] = value, x the object read before
CallAssign(k, value) ==
    /\ nOps < MaxOps
    /\ IsRef(held)
    /\ heap' = HeapWrite(heap, held.v, k, value)
    /\ err' = IF heap[held.v].frozen THEN "TypeError" ELSE ""
    /\ lastCall' = Call("assign", k, value, "", ObjN(<<>>))
    /\ nOps' = nOps + 1
    /\ UNCHANGED <<store, immutable, held, atFreeze>>
    /\ UNCHANGED appVars

NextConfig ==
    \/ \E key \in SetKeys, value \in SetValues : CallSet(key, value)
    \/ CallFreeze
    \/ CallUnfreeze
    \/ \E key \in SetKeys : CallGet(key)
    \/ \E key \in SetKeys : CallProxyGet(key)
    \/ \E i \in 1..Len(Names) : CallReadProp(Names[i])
    \/ \E i \in 1..Len(Names), value \in SetValues : CallAssign(Names[i], value)

SpecConfig == InitConfig /\ [][NextConfig]_vars

\* ------------------------------------------------------------------------
\* SpecMerge: merges into a Configuration built from any tree
\* ------------------------------------------------------------------------

InitMerge ==
    /\ \E tree \in Trees : Constructed(tree)
    /\ held = Undef
    /\ lastCall = NoCall
    /\ nOps = 0
    /\ atFreeze = <<>>
    /\ AppIdle

\* config.freeze(), before any merge
MergeFreeze ==
    /\ nOps = 0
    /\ nOps < MaxMergeOps - 1
    /\ immutable' = TRUE
    /\ atFreeze' = DeepStore(heap, store)
    /\ err' = ""
    /\ lastCall' = Call("freeze", "", Undef, "", ObjN(<<>>))
    /\ nOps' = nOps + 1
    /\ UNCHANGED <<heap, store, held>>
    /\ UNCHANGED appVars

NextMerge ==
    \/ \E tree \in Trees, configAction \in MergeActions : CallMerge(tree, configAction)
    \/ MergeFreeze

SpecMerge == InitMerge /\ [][NextMerge]_vars

\* ------------------------------------------------------------------------
\* SpecFrozen: merge called on a configuration after freeze(), the trees
\* with a list of objects among them
\* ------------------------------------------------------------------------

\* { a: [{ a: 0 }] }, { a: [{ b: 1 }] }, ... besides the trees of SpecMerge
FrozenTrees ==
    Trees \cup {ObjN(<< <<Names[1], ArrN(<<ObjN(<< <<Names[i], x>> >>)>>)>> >>) :
                    i \in 1..Len(Names), x \in LeafNodes}

InitFrozen ==
    /\ \E tree \in FrozenTrees : Constructed(tree)
    /\ held = Undef
    /\ lastCall = NoCall
    /\ nOps = 0
    /\ atFreeze = <<>>
    /\ AppIdle

\* config.merge(tree, configAction) after config.freeze()
CallMergeFrozen(tree, configAction) == immutable /\ CallMerge(tree, configAction)

NextFrozen ==
    \/ MergeFreeze
    \/ \E tree \in FrozenTrees, configAction \in MergeActions : CallMergeFrozen(tree, configAction)

SpecFrozen == InitFrozen /\ [][NextFrozen]_vars

\* ------------------------------------------------------------------------
\* SpecPure: the static functions applied to the trees a caller may write,
\* lists and null among them
\* ------------------------------------------------------------------------

\* the lists of up to two of the leaves
ListNodes ==
    {ArrN(<<>>)} \cup {ArrN(<<x>>) : x \in LeafNodes} \cup {ArrN(<<x, y>>) : x \in LeafNodes, y \in LeafNodes}

\* the values of a key in the layers of buildConfig: a number, a list, a
\* nested object
BuildValues == LeafNodes \cup ListNodes \cup {ObjN(<< <<Names[2], x>> >>) : x \in LeafNodes}

\* { env: { development: { a: e } } }
EnvLayer(e) ==
    <<"env", ObjN(<< <<PropName(NodeEnv), ObjN(<< <<Names[1], e>> >>)>> >>)>>

\* the trees given to the constructor: a key set by the caller, by the
\* overlay of the environment, by both or by none
BuildTrees ==
    {ObjN(<<>>)}
        \cup {ObjN(<< <<Names[1], u>> >>) : u \in BuildValues}
        \cup {ObjN(<< EnvLayer(e) >>) : e \in BuildValues}
        \cup {ObjN(<< <<Names[1], u>>, EnvLayer(e) >>) : u \in BuildValues, e \in BuildValues}

\* the trees given to flattenTree: those of Trees, and objects holding a
\* list, null, or a list of objects
FlatTrees ==
    Trees
        \cup {ObjN(<< <<Names[i], n>> >>) : i \in 1..Len(Names), n \in ListNodes \cup {LeafN(Null)}}
        \cup {ObjN(<< <<Names[1], ArrN(<<ObjN(<< <<Names[2], x>> >>)>>)>> >>) : x \in LeafNodes}

InitPure ==
    /\ \E tree \in BuildTrees :
          /\ Constructed(tree)
          /\ lastCall = Call("constructor", "", Undef, "", tree)
    /\ held = Undef
    /\ nOps = 0
    /\ atFreeze = <<>>
    /\ AppIdle

\* x = Configuration.flattenTree(tree), tree an object literal
CallFlattenTree(tree) ==
    /\ nOps = 0
    /\ LET a == Alloc(heap, tree)
           toReturn == [NewObject("obj", Undef) EXCEPT !.props = FlattenTree(a.heap, a.val)]
       IN /\ heap' = Append(a.heap, toReturn)
          /\ held' = Ref(Len(a.heap) + 1)
    /\ err' = ""
    /\ lastCall' = Call("flattenTree", "", Undef, "", tree)
    /\ nOps' = nOps + 1
    /\ UNCHANGED <<store, immutable, atFreeze>>
    /\ UNCHANGED appVars

NextPure == \E tree \in FlatTrees : CallFlattenTree(tree)

SpecPure == InitPure /\ [][NextPure]_vars

\* ------------------------------------------------------------------------
\* PhaseWaiter: app.after(events). A PendingWait holds the requirements
\* (each a group of names, any one of which satisfies it), which of them
\* are still pending, and the results at their positions.
\* ------------------------------------------------------------------------

\* a variant of InGroup: only the first name of a group satisfies it
InGroupFirst(group, name) == group[1] = name
InGroup(group, name) == \E j \in 1..Len(group) : group[j] = name

\* the first of the fired signals, a list << <<name, payload>>, ... >> in the
\* order they fired, that satisfies the group
FirstFired(group, fired) ==
    CHOOSE i \in 1..Len(fired) :
        /\ InGroup(group, fired[i][1])
        /\ \A j \in 1..(i - 1) : ~InGroup(group, fired[j][1])

AlreadyFired(group, fired) == \E i \in 1..Len(fired) : InGroup(group, fired[i][1])

\* a variant of AfterResolved: one satisfied requirement is enough
AfterResolvedAny(w) == \E i \in 1..Len(w.events) : ~w.pending[i]
\* a variant of AfterNew: what fired before the call does not count
AfterNewUnfired(events, fired) ==
    [events |-> events,
     pending |-> [i \in 1..Len(events) |-> TRUE],
     results |-> [i \in 1..Len(events) |-> Undef]]
\* a variant of AfterDeliver: a later emission replaces the result
AfterDeliverLatest(w, name, payload) ==
    [w EXCEPT
        !.pending = [i \in 1..Len(w.events) |-> w.pending[i] /\ ~InGroup(w.events[i], name)],
        !.results = [i \in 1..Len(w.events) |->
                        IF InGroup(w.events[i], name) THEN payload ELSE w.results[i]]]

AfterNew(events, fired) ==
    [events |-> events,
     pending |-> [i \in 1..Len(events) |-> ~AlreadyFired(events[i], fired)],
     results |-> [i \in 1..Len(events) |->
                     IF AlreadyFired(events[i], fired)
                     THEN fired[FirstFired(events[i], fired)][2] ELSE Undef]]

\* an emission of name: every pending requirement that names it is satisfied
AfterDeliver(w, name, payload) ==
    [w EXCEPT
        !.pending = [i \in 1..Len(w.events) |-> w.pending[i] /\ ~InGroup(w.events[i], name)],
        !.results = [i \in 1..Len(w.events) |->
                        IF w.pending[i] /\ InGroup(w.events[i], name)
                        THEN payload ELSE w.results[i]]]

\* the counter of remaining requirements is at 0
AfterResolved(w) == \A i \in 1..Len(w.events) : ~w.pending[i]

\* ------------------------------------------------------------------------
\* Core: the listeners of an application (src/unnamed/part_002)
\* ------------------------------------------------------------------------

Phases == {"validate", "configure", "initialize"}

InProgress(ph) ==
    CASE ph = "validate" -> "validating"
      [] ph = "configure" -> "configuring"
      [] ph = "initialize" -> "initializing"

Completed(ph) ==
    CASE ph = "validate" -> "validated"
      [] ph = "configure" -> "configured"
      [] ph = "initialize" -> "initialized"

SpoolName(p) == "P" \o ToString(p)

\* `spool:${spool.name}:validated`, ...
SpoolEvent(p, ph) == "spool:" \o SpoolName(p) \o ":" \o Completed(ph)
\* 'spool:all:validated', ...
AllEvent(ph) == "spool:all:" \o Completed(ph)

\* a signal of the application's surroundings, which no spool emits
ExtSignal == "ext:ready"

Signals ==
    {"fabrix:start", "fabrix:ready", "fabrix:stop", ExtSignal}
        \cup {AllEvent(ph) : ph \in Phases}
        \cup {SpoolEvent(p, ph) : p \in 1..MaxSpools, ph \in Phases}

\* a promise chain: <<p, phase>> is the chain bindSpoolMethodListeners starts
\* for spool p, <<0, phase>> the one bindSpoolPhaseListeners starts
Chains(n) == (0..n) \X Phases

\* the order in which the chains register their waits: per spool
\* initialize, configure, validate; then configured, validated, initialized
RECURSIVE SpoolChains(_, _)
SpoolChains(p, n) ==
    IF p > n THEN <<>>
    ELSE << <<p, "initialize">>, <<p, "configure">>, <<p, "validate">> >> \o SpoolChains(p + 1, n)
RegOrder(n) ==
    SpoolChains(1, n) \o << <<0, "configure">>, <<0, "validate">>, <<0, "initialize">> >>

\* variants of MethodEvents: one that leaves the listen lists of the
\* lifecycle out, one whose initialize waits for 'spool:all:initialized'
MethodEventsNoListen(lifecycle, ph) ==
    CASE ph = "initialize" -> << <<AllEvent("configure")>> >>
      [] ph = "configure" -> << <<AllEvent("validate")>> >>
      [] ph = "validate" -> << <<"fabrix:start">> >>
MethodEventsLate(lifecycle, ph) ==
    CASE ph = "initialize" -> lifecycle.initialize \o << <<AllEvent("initialize")>> >>
      [] ph = "configure" -> lifecycle.configure \o << <<AllEvent("validate")>> >>
      [] ph = "validate" -> << <<"fabrix:start">> >>

\* the events each chain waits for
\*   (lifecycle.initialize.listen).concat('spool:all:configured')
\*   (lifecycle.configure.listen).concat('spool:all:validated')
\*   'fabrix:start'
MethodEvents(lifecycle, ph) ==
    CASE ph = "initialize" -> lifecycle.initialize \o << <<AllEvent("configure")>> >>
      [] ph = "configure" -> lifecycle.configure \o << <<AllEvent("validate")>> >>
      [] ph = "validate" -> << <<"fabrix:start">> >>

\* a variant of PhaseEvents that names the first spool only
PhaseEventsFirst(n, ph) == [p \in 1..(IF n > 1 THEN 1 ELSE n) |-> <<SpoolEvent(p, ph)>>]

\* spools.map(spool => `spool:${spool.name}:validated`), ...
PhaseEvents(n, ph) == [p \in 1..n |-> <<SpoolEvent(p, ph)>>]

ChainEvents(sp, c) ==
    IF c[1] = 0 THEN PhaseEvents(Len(sp), c[2]) ELSE MethodEvents(sp[c[1]], c[2])

\* main.freezeConfig is false
FreezeDisabled(m) == MapGet(m, "main.freezeConfig") = Bool(FALSE)

\* a variant of ApplicationListeners that freezes at 'spool:all:validated'
ApplicationListenersEarly(imm, m, name, earlier) ==
    IF earlier = 0 /\ name = AllEvent("validate")
    THEN (IF FreezeDisabled(m) THEN imm ELSE TRUE)
    ELSE IF earlier = 0 /\ name = "fabrix:stop" THEN FALSE
    ELSE imm

\* a variant of ApplicationListeners that freezes at 'spool:all:initialized'
ApplicationListenersLate(imm, m, name, earlier) ==
    IF earlier = 0 /\ name = AllEvent("initialize")
    THEN (IF FreezeDisabled(m) THEN imm ELSE TRUE)
    ELSE IF earlier = 0 /\ name = "fabrix:stop" THEN FALSE
    ELSE imm

\* the listeners of bindApplicationListeners that act on the configuration,
\* each bound with once: at the first 'spool:all:configured' freeze() unless
\* main.freezeConfig === false; at the first 'fabrix:stop' unfreeze()
ApplicationListeners(imm, m, name, earlier) ==
    IF earlier = 0 /\ name = AllEvent("configure")
    THEN (IF FreezeDisabled(m) THEN imm ELSE TRUE)
    ELSE IF earlier = 0 /\ name = "fabrix:stop" THEN FALSE
    ELSE imm

\* app.emit(name): synchronously, every listener of name. E is the state an
\* emission acts on; newly lists the chains whose wait it resolves, in the
\* order their listeners were registered.
Emission == [emits |-> emits, waits |-> waits, immutable |-> immutable, newly |-> <<>>]

\* a variant of EmitOne: a wait whose requirements are all satisfied resolves
\* at every emission of a name it lists
EmitOneAgain(E, m, name) ==
    LET delivered == [c \in DOMAIN E.waits |-> AfterDeliver(E.waits[c], name, Undef)]
        isNew(c) == /\ AfterResolved(delivered[c])
                    /\ \E i \in 1..Len(E.waits[c].events) : InGroup(E.waits[c].events[i], name)
    IN [emits |-> [E.emits EXCEPT ![name] = @ + 1],
        waits |-> delivered,
        immutable |-> ApplicationListeners(E.immutable, m, name, E.emits[name]),
        newly |-> E.newly \o SelectSeq(RegOrder(Len(spools)), isNew)]

EmitOne(E, m, name) ==
    LET delivered == [c \in DOMAIN E.waits |-> AfterDeliver(E.waits[c], name, Undef)]
        isNew(c) == ~AfterResolved(E.waits[c]) /\ AfterResolved(delivered[c])
    IN [emits |-> [E.emits EXCEPT ![name] = @ + 1],
        waits |-> delivered,
        immutable |-> ApplicationListeners(E.immutable, m, name, E.emits[name]),
        newly |-> E.newly \o SelectSeq(RegOrder(Len(spools)), isNew)]

InSeq(q, x) == \E i \in 1..Len(q) : q[i] = x

\* the first .then callback of chain c
FirstStep(c) == IF c[1] # 0 THEN "debug" ELSE IF c[2] = "configure" THEN "paths" ELSE "emit"

\* the positions of the chains once the waits of newly are resolved. When
\* the deferred result of after(...) lets its first .then callback run is
\* not fixed: the resolution, made inside the emission, queues the callback
\* itself (the chains of direct), or the result settles one job later
Resolved(at, newly, direct) ==
    [x \in DOMAIN at |->
        IF InSeq(newly, x) THEN (IF x \in direct THEN FirstStep(x) ELSE "settle") ELSE at[x]]

\* the state after the job of chain c (FALSE: after a call from outside any
\* job) made the emissions E and left c at step next; queued: c has a
\* reaction job to run next
AfterJob(c, E, next, queued) ==
    /\ emits' = E.emits
    /\ waits' = E.waits
    /\ immutable' = E.immutable
    /\ atFreeze' = IF E.immutable /\ ~immutable THEN DeepStore(heap, store) ELSE atFreeze
    /\ \E direct \in SUBSET {E.newly[i] : i \in 1..Len(E.newly)} :
          pc' = Resolved([pc EXCEPT ![c] = next], E.newly, direct)
    /\ jobs' = Tail(jobs) \o E.newly \o (IF queued THEN <<c>> ELSE <<>>)

\* the job at the head of the queue is chain c's, at step
Runs(c, step) == jobs # <<>> /\ Head(jobs) = c /\ pc[c] = step

\* a call from outside any job (app.start(), app.stop(), an emit of the
\* surroundings) made the emissions E
AfterCall(E) ==
    /\ emits' = E.emits
    /\ waits' = E.waits
    /\ immutable' = E.immutable
    /\ atFreeze' = IF E.immutable /\ ~immutable THEN DeepStore(heap, store) ELSE atFreeze
    /\ \E direct \in SUBSET {E.newly[i] : i \in 1..Len(E.newly)} :
          pc' = Resolved(pc, E.newly, direct)
    /\ jobs' = jobs \o E.newly

\* the key and the value a hook sets in the configuration
HookKey == "foo"
HookValue == Num(1)

\* the lifecycle.<phase>.listen lists a spool may declare: nothing, another
\* spool's completion of the same phase, or (configure) the group of that
\* completion and the outside signal; a spool declares prerequisites for at
\* most one of its phases
Lifecycles(p, n) ==
    LET others == (1..n) \ {p}
        ConfigureListens ==
            {<<>>}
                \cup {<< <<SpoolEvent(q, "configure")>> >> : q \in others}
                \cup {<< <<SpoolEvent(q, "configure"), ExtSignal>> >> : q \in others}
        InitializeListens ==
            {<<>>} \cup {<< <<SpoolEvent(q, "initialize")>> >> : q \in others}
    IN {[configure |-> c, initialize |-> <<>>] : c \in ConfigureListens}
           \cup {[configure |-> <<>>, initialize |-> i] : i \in InitializeListens}

RECURSIVE SpoolLists(_, _)
SpoolLists(p, n) ==
    IF p > n THEN {<<>>}
    ELSE {<<l>> \o rest : l \in Lifecycles(p, n), rest \in SpoolLists(p + 1, n)}

\* the configuration trees of the applications: main.freezeConfig unset, or false
AppTrees ==
    {ObjN(<<>>), ObjN(<< <<"main", ObjN(<< <<"freezeConfig", LeafN(Bool(FALSE))>> >>)>> >>)}

\* new FabrixApp(def): the configuration built, every spool registered and
\* its listeners bound; a wait over no event at all is resolved at once
Init ==
    /\ \E tree \in AppTrees : Constructed(tree)
    /\ held = Undef
    /\ lastCall = NoCall
    /\ nOps = 0
    /\ atFreeze = <<>>
    /\ \E n \in 0..MaxSpools : spools \in SpoolLists(1, n)
    /\ stage = [p \in 1..Len(spools) |-> "registered"]
    /\ emits = [sig \in Signals |-> 0]
    /\ waits = [c \in Chains(Len(spools)) |-> AfterNew(ChainEvents(spools, c), <<>>)]
    /\ LET atOnce == {c \in Chains(Len(spools)) :
                          AfterResolved(AfterNew(ChainEvents(spools, c), <<>>))}
       IN \E direct \in SUBSET atOnce :
             pc = Resolved([c \in Chains(Len(spools)) |-> "waiting"],
                           SelectSeq(RegOrder(Len(spools)), LAMBDA c : c \in atOnce), direct)
    /\ jobs = SelectSeq(RegOrder(Len(spools)),
                        LAMBDA c : AfterResolved(AfterNew(ChainEvents(spools, c), <<>>)))
    /\ consoleErrors = {}
    /\ unhandled = {}
    /\ emitLog = <<>>
    /\ calls = <<>>

\* app.start(): this.emit('fabrix:start')
Start ==
    /\ emits["fabrix:start"] = 0
    /\ AfterCall(EmitOne(Emission, store, "fabrix:start"))
    /\ UNCHANGED <<heap, store, held, err, lastCall, nOps, spools, emitLog, calls, stage, consoleErrors, unhandled>>

\* app.stop(): this.emit('fabrix:stop')
Stop ==
    /\ emits["fabrix:stop"] = 0
    /\ AfterCall(EmitOne(Emission, store, "fabrix:stop"))
    /\ UNCHANGED <<heap, store, held, err, lastCall, nOps, spools, emitLog, calls, stage, consoleErrors, unhandled>>

\* the surroundings emit their signal
EmitExt ==
    /\ emits[ExtSignal] = 0
    /\ AfterCall(EmitOne(Emission, store, ExtSignal))
    /\ UNCHANGED <<heap, store, held, err, lastCall, nOps, spools, emitLog, calls, stage, consoleErrors, unhandled>>

\* a signal that has been emitted is emitted again: app.start() is called
\* again, or the surroundings emit a barrier that Core has emitted (app.emit
\* is open to every holder of the application)
EmitAgain(sig) ==
    /\ emits[sig] >= 1
    /\ LET over(s) == IF emits[s] > 1 THEN emits[s] - 1 ELSE 0
       IN over("fabrix:start") + over(AllEvent("validate")) + over(AllEvent("configure"))
              + over(AllEvent("initialize")) < MaxAgain
    /\ AfterCall(EmitOne(Emission, store, sig))
    /\ UNCHANGED <<heap, store, held, err, lastCall, nOps, spools, emitLog, calls, stage, consoleErrors, unhandled>>

\* the promise of a resolved after(...) settles one job after the emission
\* that satisfied it: its first reaction is queued
AfterSettle(c) ==
    /\ Runs(c, "settle")
    /\ AfterJob(c, Emission, FirstStep(c), TRUE)
    /\ UNCHANGED <<heap, store, held, err, lastCall, nOps, spools, emitLog, calls, stage, consoleErrors, unhandled>>

\* .then(() => app.log.debug('spool: validating', spool.name))
LogDebug(p, ph) ==
    /\ Runs(<<p, ph>>, "debug")
    /\ AfterJob(<<p, ph>>, Emission, "stage", TRUE)
    /\ UNCHANGED <<heap, store, held, err, lastCall, nOps, spools, emitLog, calls, stage, consoleErrors, unhandled>>

\* a variant of StageInProgress that writes the stage of completion
StageInProgressSkips(st, p, ph) == [st EXCEPT ![p] = Completed(ph)]

\* .then(() => spool.stage = 'validating')
StageInProgress(st, p, ph) == [st EXCEPT ![p] = InProgress(ph)]
SetStageInProgress(p, ph) ==
    /\ Runs(<<p, ph>>, "stage")
    /\ stage' = StageInProgress(stage, p, ph)
    /\ AfterJob(<<p, ph>>, Emission, "invoke", TRUE)
    /\ UNCHANGED <<heap, store, held, err, lastCall, nOps, spools, emitLog, calls, consoleErrors, unhandled>>

\* .then(() => spool.validate()): the hook is called. A synchronous hook
\* runs inside this job and its return or throw settles the promise of the
\* .then at once; a hook that returns a promise (an async function) leaves
\* the promise of the .then to be resolved with that promise: the job that
\* calls hookPromise.then(...) (NewPromiseResolveThenableJob) is queued
InvokeHook(p, ph) ==
    /\ Runs(<<p, ph>>, "invoke")
    /\ \/ AfterJob(<<p, ph>>, Emission, "running", FALSE)
       \/ AfterJob(<<p, ph>>, Emission, "thenable", TRUE)
    /\ UNCHANGED <<heap, store, held, err, lastCall, nOps, spools, emitLog, calls, stage, consoleErrors, unhandled>>

\* the positions of a chain whose hook has been called and has neither
\* returned nor thrown, nor settled its promise: a synchronous hook, a hook
\* whose promise is not yet observed by the chain, and one whose promise is
HookRunning(c) == pc[c] \in {"running", "thenable", "awaiting"}

\* where the chain is once its hook, at position at, has completed (ok) or
\* failed: a synchronous hook settles the promise of the .then, a promise
\* that the chain does not observe yet is settled and nothing more, the
\* settlement of an observed one queues its reaction
SettleHook(c, ok) ==
    LET settled == CASE pc[c] = "running" -> IF ok THEN "emit" ELSE "passEmit"
                     [] pc[c] = "thenable" -> IF ok THEN "thenableOk" ELSE "thenableErr"
                     [] pc[c] = "awaiting" -> IF ok THEN "reactOk" ELSE "reactErr"
    IN /\ pc' = [pc EXCEPT ![c] = settled]
       /\ jobs' = IF pc[c] = "thenable" THEN jobs ELSE Append(jobs, c)

\* the hook, running, calls app.config.set(HookKey, HookValue); the
\* exception of set, if any, is the hook's failure: a synchronous hook
\* throws, the promise of an async one is rejected
HookSet(p, ph) ==
    /\ HookRunning(<<p, ph>>)
    /\ LET r == ConfigSet(store, immutable, HookKey, HookValue)
       IN /\ store' = r.store
          /\ err' = r.err
          /\ IF r.err = "" THEN UNCHANGED <<pc, jobs>> ELSE SettleHook(<<p, ph>>, FALSE)
    /\ lastCall' = Call("set", HookKey, HookValue, "", ObjN(<<>>))
    /\ UNCHANGED <<heap, immutable, held, nOps, atFreeze, spools, emitLog, calls, stage, emits, waits,
                   consoleErrors, unhandled>>

\* the hook returns, or its promise is fulfilled
HookResolve(p, ph) ==
    /\ HookRunning(<<p, ph>>)
    /\ SettleHook(<<p, ph>>, TRUE)
    /\ UNCHANGED <<heap, store, immutable, held, err, lastCall, nOps, atFreeze, spools, emitLog, calls, stage,
                   emits, waits, consoleErrors, unhandled>>

\* the hook throws, or its promise is rejected
HookReject(p, ph) ==
    /\ HookRunning(<<p, ph>>)
    /\ SettleHook(<<p, ph>>, FALSE)
    /\ UNCHANGED <<heap, store, immutable, held, err, lastCall, nOps, atFreeze, spools, emitLog, calls, stage,
                   emits, waits, consoleErrors, unhandled>>

\* the job queued for a hook that returned a promise calls
\* hookPromise.then(resolve, reject): on a pending promise the chain waits
\* for the hook, on a fulfilled one the reaction is queued; the reaction to
\* the fulfilment fulfils the promise of .then(() => spool.validate()): the
\* job of the next .then is queued
ResolveThenable(p, ph) ==
    /\ \/ Runs(<<p, ph>>, "thenable") /\ AfterJob(<<p, ph>>, Emission, "awaiting", FALSE)
       \/ Runs(<<p, ph>>, "thenableOk") /\ AfterJob(<<p, ph>>, Emission, "reactOk", TRUE)
       \/ Runs(<<p, ph>>, "reactOk") /\ AfterJob(<<p, ph>>, Emission, "emit", TRUE)
    /\ UNCHANGED <<heap, store, held, err, lastCall, nOps, spools, emitLog, calls, stage, consoleErrors, unhandled>>

\* the same two jobs for a hook's promise that is rejected: the call of
\* hookPromise.then(resolve, reject) queues the reaction, and the reaction
\* rejects the promise of .then(() => spool.validate())
ThenableRejected(p, ph) ==
    /\ \/ Runs(<<p, ph>>, "thenableErr") /\ AfterJob(<<p, ph>>, Emission, "reactErr", TRUE)
       \/ Runs(<<p, ph>>, "reactErr") /\ AfterJob(<<p, ph>>, Emission, "passEmit", TRUE)
    /\ UNCHANGED <<heap, store, held, err, lastCall, nOps, spools, emitLog, calls, stage, consoleErrors, unhandled>>

\* .then(() => app.emit(`spool:${spool.name}:validated`))
EmitCompletion(p, ph) ==
    /\ Runs(<<p, ph>>, "emit")
    /\ AfterJob(<<p, ph>>, EmitOne(Emission, store, SpoolEvent(p, ph)), "stageDone", TRUE)
    /\ UNCHANGED <<heap, store, held, err, lastCall, nOps, spools, emitLog, calls, stage, consoleErrors, unhandled>>

\* a variant of StageCompleted that leaves the stage as it is
StageCompletedNever(st, p, ph) == st

\* .then(() => spool.stage = 'validated')
StageCompleted(st, p, ph) == [st EXCEPT ![p] = Completed(ph)]
SetStageCompleted(p, ph) ==
    /\ Runs(<<p, ph>>, "stageDone")
    /\ stage' = StageCompleted(stage, p, ph)
    /\ AfterJob(<<p, ph>>, Emission, "done", FALSE)
    /\ UNCHANGED <<heap, store, held, err, lastCall, nOps, spools, emitLog, calls, consoleErrors, unhandled>>

\* the rejection of the hook passes .then(() => app.emit(...)) and then
\* .then(() => spool.stage = ...), neither of which has a handler for it:
\* one reaction job each, before the job of .catch
PassRejection(p, ph) ==
    /\ \/ Runs(<<p, ph>>, "passEmit") /\ AfterJob(<<p, ph>>, Emission, "passStage", TRUE)
       \/ Runs(<<p, ph>>, "passStage") /\ AfterJob(<<p, ph>>, Emission, "catch", TRUE)
    /\ UNCHANGED <<heap, store, held, err, lastCall, nOps, spools, emitLog, calls, stage, consoleErrors, unhandled>>

\* a variant of Rethrown that swallows the error
Swallowed(thrown, c) == thrown

\* .catch(this.handlePromiseRejection): console.error(err); throw err
Rethrown(thrown, c) == thrown \cup {c}
HandlePromiseRejection(p, ph) ==
    /\ Runs(<<p, ph>>, "catch")
    /\ consoleErrors' = consoleErrors \cup {<<p, ph>>}
    /\ unhandled' = Rethrown(unhandled, <<p, ph>>)
    /\ AfterJob(<<p, ph>>, Emission, "failed", FALSE)
    /\ UNCHANGED <<heap, store, held, err, lastCall, nOps, spools, emitLog, calls, stage>>

\* app.after(validatedEvents).then(() => app.emit('spool:all:validated'))
EmitAllValidated ==
    /\ Runs(<<0, "validate">>, "emit")
    /\ AfterJob(<<0, "validate">>, EmitOne(Emission, store, AllEvent("validate")), "done", FALSE)
    /\ UNCHANGED <<heap, store, held, err, lastCall, nOps, spools, emitLog, calls, stage, consoleErrors, unhandled>>

\* app.after(configuredEvents).then(async () => { await this.createDefaultPaths(app) ...
CreateDefaultPaths ==
    /\ Runs(<<0, "configure">>, "paths")
    /\ AfterJob(<<0, "configure">>, Emission, "creating", FALSE)
    /\ UNCHANGED <<heap, store, held, err, lastCall, nOps, spools, emitLog, calls, stage, consoleErrors, unhandled>>

\* ... the awaits of createDefaultPaths, one for each path on what mkdirp
\* returns, and the await of the callback are over: the rest of the callback
\* is queued, some jobs after the callback began
PathsCreated ==
    /\ pc[<<0, "configure">>] = "creating"
    /\ pc' = [pc EXCEPT ![<<0, "configure">>] = "emit"]
    /\ jobs' = Append(jobs, <<0, "configure">>)
    /\ UNCHANGED <<heap, store, immutable, held, err, lastCall, nOps, atFreeze, spools, emitLog, calls, stage,
                   emits, waits, consoleErrors, unhandled>>

\* ... app.emit('spool:all:configured') })
EmitAllConfigured ==
    /\ Runs(<<0, "configure">>, "emit")
    /\ AfterJob(<<0, "configure">>, EmitOne(Emission, store, AllEvent("configure")), "done", FALSE)
    /\ UNCHANGED <<heap, store, held, err, lastCall, nOps, spools, emitLog, calls, stage, consoleErrors, unhandled>>

\* app.after(initializedEvents).then(() => {
\*   app.emit('spool:all:initialized'); app.emit('fabrix:ready') })
EmitAllInitialized ==
    /\ Runs(<<0, "initialize">>, "emit")
    /\ AfterJob(<<0, "initialize">>,
                EmitOne(EmitOne(Emission, store, AllEvent("initialize")), store, "fabrix:ready"),
                "done", FALSE)
    /\ UNCHANGED <<heap, store, held, err, lastCall, nOps, spools, emitLog, calls, stage, consoleErrors, unhandled>>

Registered == 1..Len(spools)

\* the reaction jobs of the chains, in the order of the queue
RunJob ==
    \/ \E c \in DOMAIN pc : AfterSettle(c)
    \/ \E p \in Registered, ph \in Phases : LogDebug(p, ph)
    \/ \E p \in Registered, ph \in Phases : SetStageInProgress(p, ph)
    \/ \E p \in Registered, ph \in Phases : InvokeHook(p, ph)
    \/ \E p \in Registered, ph \in Phases : ResolveThenable(p, ph)
    \/ \E p \in Registered, ph \in Phases : EmitCompletion(p, ph)
    \/ \E p \in Registered, ph \in Phases : SetStageCompleted(p, ph)
    \/ EmitAllValidated
    \/ CreateDefaultPaths
    \/ EmitAllConfigured
    \/ EmitAllInitialized

\* the reaction jobs of a rejected chain
RunCatch ==
    \/ \E p \in Registered, ph \in Phases : ThenableRejected(p, ph)
    \/ \E p \in Registered, ph \in Phases : PassRejection(p, ph)
    \/ \E p \in Registered, ph \in Phases : HandlePromiseRejection(p, ph)

\* a hook in flight writes to the configuration, or fails
HookSteps ==
    \/ \E p \in Registered, ph \in Phases : HookSet(p, ph)
    \/ \E p \in Registered, ph \in Phases : HookReject(p, ph)

Next ==
    \/ Start
    \/ Stop
    \/ EmitExt
    \/ EmitAgain("fabrix:start")
    \/ \E ph \in Phases : EmitAgain(AllEvent(ph))
    \/ RunJob
    \/ RunCatch
    \/ \E p \in Registered, ph \in Phases : HookResolve(p, ph)
    \/ HookSteps
    \/ PathsCreated

Spec == Init /\ [][Next]_vars

\* The boot of an application whose hooks all complete without error. The
\* application does not stop short: as long as a job is queued, a hook is in
\* flight or the directories are being created, one of these goes on.
NextBoot ==
    \/ Start
    \/ Stop
    \/ EmitExt
    \/ RunJob
    \/ \E p \in Registered, ph \in Phases : HookResolve(p, ph)
    \/ PathsCreated

Progress == RunJob \/ (\E p \in Registered, ph \in Phases : HookResolve(p, ph)) \/ PathsCreated

SpecBoot == Init /\ [][NextBoot]_vars /\ WF_vars(Progress)

\* ------------------------------------------------------------------------
\* SpecWait: a caller of app.after, app.onceAny and app.emit, as in the
\* tests #after and #onceAny (src/unnamed/part_001)
\* ------------------------------------------------------------------------

\* calls of after / onceAny in one run
MaxWaits == 2
\* emissions in one run
MaxEmits == 3

\* the names the caller emits and waits for
WaitSignals == {"A", "B", "C"}

\* an element of the list passed to after: a name, or an array of names
AName(n) == [alt |-> FALSE, names |-> <<n>>]
AGroup(g) == [alt |-> TRUE, names |-> g]
\* the argument of after: a bare name, or a list of elements
BareArg(n) == [bare |-> TRUE, items |-> <<AName(n)>>]
ListArg(items) == [bare |-> FALSE, items |-> items]

AfterArgs ==
    {BareArg("A"),
     ListArg(<<>>),
     ListArg(<<AName("A"), AName("B")>>),
     ListArg(<<AName("B"), AName("C")>>),
     ListArg(<<AName("A"), AName("A")>>),
     ListArg(<<AGroup(<<"A", "B">>), AName("C")>>)}
OnceAnyArgs == {"A", "B"}

\* the requirements of after(arg): a bare name is a list of one element,
\* a name the group of that name
Requirements(arg) == [i \in 1..Len(arg.items) |-> arg.items[i].names]

\* the value after(...) resolves with: the results at their positions
AfterValue(w) == ArrN([i \in 1..Len(w.events) |-> LeafN(w.results[i])])

\* the value onceAny(name) resolves with: the test reads the payload at
\* result[0]
OnceAnyValue(w) == ArrN(<<LeafN(w.results[1])>>)

InitWait ==
    /\ Constructed(ObjN(<<>>))
    /\ held = Undef
    /\ lastCall = NoCall
    /\ nOps = 0
    /\ atFreeze = <<>>
    /\ AppIdle

\* the promise of a new call: resolved at once when nothing is pending
NewWait(op, arg) ==
    LET w == AfterNew(Requirements(arg), emitLog)
        id == Len(calls) + 1
    IN /\ Len(calls) < MaxWaits
       /\ calls' = Append(calls, [op |-> op, arg |-> arg, at |-> Len(emitLog),
                                  settled |-> 0, value |-> LeafN(Undef)])
       /\ waits' = Append(waits, w)
       /\ pc' = Append(pc, IF AfterResolved(w) THEN "settle" ELSE "waiting")
       /\ jobs' = IF AfterResolved(w) THEN Append(jobs, id) ELSE jobs
       /\ UNCHANGED <<spools, stage, emits, consoleErrors, unhandled, emitLog>>
       /\ UNCHANGED <<cfgVars, callerVars>>

\* const eventPromise = app.after(arg).then(results => ...)
CallAfter(arg) == NewWait("after", arg)

\* const eventPromise = app.onceAny(name).then(result => ...)
CallOnceAny(name) == NewWait("onceAny", BareArg(name))

\* a variant of CallEmit: an emission is consumed by the first pending call
\* that lists the name
CallEmitFirst(name) ==
    /\ Len(emitLog) < MaxEmits
    /\ LET payload == Num(Len(emitLog) + 1)
           lists(id) == \E i \in 1..Len(waits[id].events) :
                            waits[id].pending[i] /\ InGroup(waits[id].events[i], name)
           takes(id) == pc[id] = "waiting" /\ lists(id)
                            /\ \A other \in 1..(id - 1) : ~(pc[other] = "waiting" /\ lists(other))
           delivered == [id \in DOMAIN waits |->
                            IF takes(id) THEN AfterDeliver(waits[id], name, payload)
                            ELSE waits[id]]
           isNew(id) == pc[id] = "waiting" /\ AfterResolved(delivered[id])
       IN /\ emitLog' = Append(emitLog, <<name, payload>>)
          /\ waits' = delivered
          /\ pc' = [id \in DOMAIN pc |-> IF isNew(id) THEN "settle" ELSE pc[id]]
          /\ jobs' = jobs \o SelectSeq([id \in DOMAIN pc |-> id], isNew)
    /\ UNCHANGED <<spools, stage, emits, consoleErrors, unhandled, calls>>
    /\ UNCHANGED <<cfgVars, callerVars>>

\* app.emit(name, payload): the payloads are 1, 2, ... in the order of emission
CallEmit(name) ==
    /\ Len(emitLog) < MaxEmits
    /\ LET payload == Num(Len(emitLog) + 1)
           delivered == [id \in DOMAIN waits |->
                            IF pc[id] = "waiting" THEN AfterDeliver(waits[id], name, payload)
                            ELSE waits[id]]
           isNew(id) == pc[id] = "waiting" /\ AfterResolved(delivered[id])
       IN /\ emitLog' = Append(emitLog, <<name, payload>>)
          /\ waits' = delivered
          /\ pc' = [id \in DOMAIN pc |-> IF isNew(id) THEN "settle" ELSE pc[id]]
          /\ jobs' = jobs \o SelectSeq([id \in DOMAIN pc |-> id], isNew)
    /\ UNCHANGED <<spools, stage, emits, consoleErrors, unhandled, calls>>
    /\ UNCHANGED <<cfgVars, callerVars>>

\* the reaction job of a resolved promise: .then(results => ...) is called
WaitSettle(id) ==
    /\ Runs(id, "settle")
    /\ calls' = [calls EXCEPT ![id].settled = @ + 1,
                              ![id].value = IF calls[id].op = "after"
                                            THEN AfterValue(waits[id])
                                            ELSE OnceAnyValue(waits[id])]
    /\ pc' = [pc EXCEPT ![id] = "resolved"]
    /\ jobs' = Tail(jobs)
    /\ UNCHANGED <<spools, stage, emits, waits, consoleErrors, unhandled, emitLog>>
    /\ UNCHANGED <<cfgVars, callerVars>>

NextWait ==
    \/ \E arg \in AfterArgs : CallAfter(arg)
    \/ \E name \in OnceAnyArgs : CallOnceAny(name)
    \/ \E name \in WaitSignals : CallEmit(name)
    \/ \E id \in DOMAIN calls : WaitSettle(id)

SpecWait == InitWait /\ [][NextWait]_vars

\* ------------------------------------------------------------------------
\* The lifecycle of the spools
\* ------------------------------------------------------------------------

StageOrder ==
    <<"registered", "validating", "validated", "configuring", "configured",
      "initializing", "initialized">>
StageIndex(s) == CHOOSE i \in 1..Len(StageOrder) : StageOrder[i] = s

Emitted(name) == emits[name] > 0
\* the hook of chain c has been called
AfterInvoke ==
    {"running", "thenable", "awaiting", "thenableOk", "reactOk", "emit", "stageDone", "done",
                   "thenableErr", "reactErr", "passEmit", "passStage", "catch", "failed"}
HookInvoked(c) == pc[c] \in AfterInvoke
HookFailed(c) == pc[c] \in {"thenableErr", "reactErr", "passEmit", "passStage", "catch", "failed"}
GroupFired(group) == \E j \in 1..Len(group) : Emitted(group[j])

\* C1: in every step the stage of every spool either stays as it is or moves
\* to the next state of registered -> validating -> validated -> configuring
\* -> configured -> initializing -> initialized; it never skips a state and
\* never moves backward.
C1_StageOneStep ==
    [][\A p \in Registered :
          \/ stage'[p] = stage[p]
          \/ StageIndex(stage'[p]) = StageIndex(stage[p]) + 1]_vars

\* two spools went through all the stages, the second after the first
C1_Witness ==
    /\ Len(spools) = 2
    /\ spools[2].initialize # <<>>
    /\ \A p \in Registered : stage[p] = "initialized"

\* C2: none of fabrix:start, spool:all:validated, spool:all:configured,
\* spool:all:initialized, fabrix:ready has been emitted unless the one before
\* it in this sequence has been emitted, for every set of spools, the empty
\* set included.
BoundarySignals ==
    <<"fabrix:start", AllEvent("validate"), AllEvent("configure"), AllEvent("initialize"),
      "fabrix:ready">>
C2_BoundaryOrder ==
    \A i \in 2..Len(BoundarySignals) :
        Emitted(BoundarySignals[i]) => Emitted(BoundarySignals[i - 1])

\* C3: spool:all:<phase> has been emitted only if spool:<name>:<phase> of
\* every registered spool has been emitted, the hook of that phase having
\* completed for each of them.
C3_BarrierAfterAll ==
    \A ph \in Phases :
        Emitted(AllEvent(ph)) =>
            \A p \in Registered :
                /\ Emitted(SpoolEvent(p, ph))
                /\ pc[<<p, ph>>] \in {"stageDone", "done"}

C3_Witness ==
    /\ Len(spools) = 2
    /\ Emitted(AllEvent("configure"))
    /\ ~Emitted(AllEvent("initialize"))
    /\ pc[<<2, "configure">>] = "done"

\* C4: the configure hook of a spool has been called only if
\* spool:all:validated and every prerequisite of its lifecycle.configure.listen
\* have been emitted, and its initialize hook only if spool:all:configured and
\* every prerequisite of lifecycle.initialize.listen have been; with P1
\* declaring nothing and P2 declaring spool:P1:configured for configure, the
\* configure hook of P2 has been called only if that of P1 has completed, and
\* spool:all:configured has been emitted only if both have completed.
P1ThenP2 ==
    /\ Len(spools) = 2
    /\ spools[1].configure = <<>>
    /\ spools[2].configure = << <<SpoolEvent(1, "configure")>> >>
HookCompleted(c) == pc[c] \in {"thenableOk", "reactOk", "emit", "stageDone", "done"}
C4_HookGated ==
    /\ \A p \in Registered :
          /\ HookInvoked(<<p, "configure">>) =>
                /\ Emitted(AllEvent("validate"))
                /\ \A i \in 1..Len(spools[p].configure) : GroupFired(spools[p].configure[i])
          /\ HookInvoked(<<p, "initialize">>) =>
                /\ Emitted(AllEvent("configure"))
                /\ \A i \in 1..Len(spools[p].initialize) : GroupFired(spools[p].initialize[i])
    /\ P1ThenP2 =>
          /\ HookInvoked(<<2, "configure">>) =>
                HookCompleted(<<1, "configure">>) /\ Emitted(SpoolEvent(1, "configure"))
          /\ Emitted(AllEvent("configure")) =>
                HookCompleted(<<1, "configure">>) /\ HookCompleted(<<2, "configure">>)

C4_Witness ==
    /\ P1ThenP2
    /\ pc[<<2, "configure">>] = "running"
    /\ pc[<<1, "initialize">>] = "waiting"

\* C5: unless main.freezeConfig is false, the configuration is immutable in
\* every state in which spool:all:configured has been emitted and fabrix:stop
\* has not, so in every state in which an initialize hook runs and after
\* fabrix:ready; and the only step that makes an immutable configuration
\* mutable again is the first emission of fabrix:stop.
FrozenWindow == Emitted(AllEvent("configure")) /\ ~Emitted("fabrix:stop") /\ ~FreezeDisabled(store)
C5_FrozenUntilStop ==
    /\ [](FrozenWindow => immutable)
    /\ [][immutable /\ ~immutable' => emits["fabrix:stop"] = 0 /\ emits'["fabrix:stop"] = 1]_vars

\* the configuration was frozen, an initialize hook ran, the application
\* became ready and fabrix:stop then unfroze the configuration
C5_Witness ==
    /\ atFreeze # <<>>
    /\ Emitted("fabrix:ready")
    /\ Len(spools) = 2
    /\ emits["fabrix:stop"] = 1
    /\ ~immutable

\* C6: once a hook has failed, spool:<name>:<phase> of that spool and phase,
\* spool:all:<phase> and fabrix:ready are never emitted and the stage of the
\* spool stays at the in-progress value of the phase; once the rejection
\* handler has run, the error is on the console and thrown again.
C6_HookFailure ==
    \A p \in Registered, ph \in Phases :
        /\ HookFailed(<<p, ph>>) =>
              /\ ~Emitted(SpoolEvent(p, ph))
              /\ stage[p] = InProgress(ph)
              /\ ~Emitted(AllEvent(ph))
              /\ ~Emitted("fabrix:ready")
        /\ pc[<<p, ph>>] = "failed" =>
              <<p, ph>> \in consoleErrors /\ <<p, ph>> \in unhandled

\* the configure hook of the second of two spools failed and every job ran
C6_Witness ==
    /\ Len(spools) = 2
    /\ pc[<<2, "configure">>] = "failed"
    /\ pc[<<1, "configure">>] = "done"
    /\ jobs = <<>>

\* the prerequisites of spool p for the phase
ListenOf(p, ph) ==
    CASE ph = "configure" -> spools[p].configure
      [] ph = "initialize" -> spools[p].initialize
      [] ph = "validate" -> <<>>
NamesCompletion(group, p, ph) ==
    \E j \in 1..Len(group) : \E q \in Registered \ {p} : group[j] = SpoolEvent(q, ph)
Acyclic(ph) ==
    \E rank \in [Registered -> Registered] :
        \A p \in Registered, q \in Registered :
            (\E i \in 1..Len(ListenOf(p, ph)) : InGroup(ListenOf(p, ph)[i], SpoolEvent(q, ph)))
                => rank[q] < rank[p]
DepsOK ==
    \A ph \in Phases :
        /\ \A p \in Registered :
              \A i \in 1..Len(ListenOf(p, ph)) : NamesCompletion(ListenOf(p, ph)[i], p, ph)
        /\ Acyclic(ph)
Booted == Emitted("fabrix:ready") /\ \A p \in Registered : stage[p] = "initialized"

\* C7: when no hook fails, and every prerequisite a spool declares is, in each
\* of its groups, the completion of the same phase by another spool, with no
\* cycle among these within a phase, then from fabrix:start on fabrix:ready is
\* eventually emitted with every spool at stage initialized.
C7_EventuallyReady == (Emitted("fabrix:start") /\ DepsOK) ~> Booted

\* two spools, the first waiting for the second, booted
C7_Witness ==
    /\ Len(spools) = 2
    /\ spools[1].configure # <<>>
    /\ DepsOK
    /\ Booted

\* ------------------------------------------------------------------------
\* The configuration in the hands of a caller
\* ------------------------------------------------------------------------

\* the step is a call of config.set
IsSetStep == nOps' = nOps + 1 /\ lastCall'.op = "set"

\* C8: a call set(key, value) on an immutable configuration, for a key the
\* store has or a new one, throws IllegalAccessError and leaves the store as
\* it is; on a configuration that is not immutable (never frozen, or
\* unfrozen again) it throws nothing and the store maps the key to the value.
C8_SetAfterFreeze ==
    [][IsSetStep =>
          /\ immutable =>
                /\ err' = "IllegalAccessError"
                /\ store' = store
                /\ \A k \in DOMAIN store : MapGet(store', k) = MapGet(store, k)
          /\ ~immutable =>
                /\ err' = ""
                /\ MapGet(store', lastCall'.key) = lastCall'.val
                /\ \A k \in DOMAIN store \ {lastCall'.key} : MapGet(store', k) = MapGet(store, k)]_vars

\* set threw on the frozen configuration for a key the store does not have
C8_Witness ==
    /\ lastCall.op = "set"
    /\ err = "IllegalAccessError"
    /\ immutable
    /\ ~MapHas(store, lastCall.key)

\* C9: while the configuration is immutable, whatever the caller does with
\* the values it has read, a deep comparison finds every key of the store at
\* the value it had when freeze() was called.
C9_ReadsCannotChange == immutable => DeepStore(heap, store) = atFreeze

\* the names of the properties of the objects, and those the caller uses
PropNames ==
    {Names[i] : i \in 1..Len(Names)}
        \cup UNION {{heap[id].props[i][1] : i \in 1..Len(heap[id].props)} : id \in DOMAIN heap}
\* the keys of the store, and those the caller uses
PrefixKeys == DOMAIN store \cup SetKeys

\* C10: for every key 'p.k' of the store, 'p' is a key of the store, its
\* value is an object, and a deep comparison finds the property k of that
\* object equal to the value of 'p.k'.
C10_StoreConsistent ==
    \A p \in PrefixKeys, k \in PropNames :
        MapHas(store, DotKey(p, k)) =>
            /\ MapHas(store, p)
            /\ IsRef(store[p])
            /\ HasProp(heap[store[p].v].props, k)
            /\ Deep(heap, GetProp(heap[store[p].v].props, k)) = Deep(heap, store[DotKey(p, k)])

\* ------------------------------------------------------------------------
\* The static functions
\* ------------------------------------------------------------------------

\* the segments of a path: the names, and the indices of a list of two
Segments == {Names[i] : i \in 1..Len(Names)} \cup {IndexKeys[1], IndexKeys[2]}
\* the paths of up to as many segments as a tree of Trees has levels
PathSeqs == UNION {[1..n -> Segments] : n \in 1..(MaxNodes + 1)}

\* the dotted key of a path
RECURSIVE Join(_)
Join(path) == IF Len(path) = 1 THEN path[1] ELSE path[1] \o "." \o Join(Tail(path))

\* the path leads to a sub-value of the tree; that sub-value
RECURSIVE Reaches(_, _)
Reaches(tree, path) ==
    /\ IsObjN(tree)
    /\ HasProp(tree.kids, path[1])
    /\ (Len(path) > 1 => Reaches(GetProp(tree.kids, path[1]), Tail(path)))
RECURSIVE Walk(_, _)
Walk(tree, path) ==
    IF Len(path) = 1 THEN GetProp(tree.kids, path[1])
    ELSE Walk(GetProp(tree.kids, path[1]), Tail(path))

\* C11: flattenTree(T) has a key for every path that leads to a sub-value of
\* T (a leaf, or an object or list on the way to one, the elements of a list
\* by their indices), mapped to that sub-value, and has no other key.
C11_FlattenPaths ==
    lastCall.op = "flattenTree" =>
        LET T == lastCall.tree
            flat == heap[held.v].props
        IN /\ \A path \in PathSeqs :
                 Reaches(T, path) =>
                     /\ HasProp(flat, Join(path))
                     /\ Deep(heap, GetProp(flat, Join(path))) = Walk(T, path)
           /\ \A i \in 1..Len(flat) :
                 /\ \E path \in PathSeqs : Reaches(T, path) /\ flat[i][1] = Join(path)
                 /\ \A j \in 1..Len(flat) : flat[j][1] = flat[i][1] => j = i

\* flattenTree was given { a: [{ b: 0 }] }: the keys a.0.b, a.0 and a
C11_Witness ==
    /\ lastCall.op = "flattenTree"
    /\ Reaches(lastCall.tree, <<Names[1], IndexKeys[1], Names[2]>>)
    /\ Len(heap[held.v].props) = 3

\* ------------------------------------------------------------------------
\* merge
\* ------------------------------------------------------------------------

\* the step is a call of config.merge under the policy
IsMergeStep(configAction) ==
    nOps' = nOps + 1 /\ lastCall'.op = "merge" /\ lastCall'.action = configAction

\* the path leads to a leaf of the tree
IsLeafPath(tree, path) == Reaches(tree, path) /\ ~IsObjN(Walk(tree, path))

\* C12: after merge(T, "hold") on a configuration that is not immutable, get
\* of every leaf path of T returns the leaf of T, whatever the store held.
C12_HoldRoundTrip ==
    [][IsMergeStep("hold") /\ ~immutable =>
          /\ err' = ""
          /\ \A path \in PathSeqs :
                IsLeafPath(lastCall'.tree, path) =>
                    Deep(heap', MapGet(store', Join(path))) = Walk(lastCall'.tree, path)]_vars

\* merge(T, "hold") with the leaf a.b = 1 in T, on a configuration built from
\* a tree that had a.a: the store resolves a.b to 1 and still has the key a.a
C12_Witness ==
    /\ lastCall.op = "merge"
    /\ lastCall.action = "hold"
    /\ err = ""
    /\ IsLeafPath(lastCall.tree, <<Names[1], Names[2]>>)
    /\ MapGet(store, DotKey(Names[1], Names[2])) = Num(1)
    /\ MapHas(store, DotKey(Names[1], Names[1]))
    /\ ~Reaches(lastCall.tree, <<Names[1], Names[1]>>)

\* C13: after merge(T, "merge") on a configuration that is not immutable,
\* every leaf path of T the store already had keeps the value it had, and
\* every leaf path of T the store did not have has the leaf of T.
C13_MergeKeepsExisting ==
    [][IsMergeStep("merge") /\ ~immutable =>
          \A path \in PathSeqs :
              IsLeafPath(lastCall'.tree, path) =>
                  Deep(heap', MapGet(store', Join(path))) =
                      IF MapHas(store, Join(path)) THEN Deep(heap, MapGet(store, Join(path)))
                      ELSE Walk(lastCall'.tree, path)]_vars

\* C14: merge(T, "replaceable") leaves every key the store had at the value
\* it had, the members of an object included, and, unless set throws, adds
\* exactly the keys of flattenTree(T) the store did not have, with the
\* sub-values of T.
C14_ReplaceableFrame ==
    [][IsMergeStep("replaceable") =>
          /\ \A k \in DOMAIN store :
                /\ MapHas(store', k)
                /\ store'[k] = store[k]
                /\ Deep(heap', store'[k]) = Deep(heap, store[k])
          /\ \A k \in DOMAIN store' \ DOMAIN store :
                \E path \in PathSeqs :
                    /\ Reaches(lastCall'.tree, path)
                    /\ k = Join(path)
                    /\ Deep(heap', store'[k]) = Walk(lastCall'.tree, path)
          /\ err' = "" =>
                \A path \in PathSeqs : Reaches(lastCall'.tree, path) => MapHas(store', Join(path))]_vars

\* merge(T, "replaceable") added a.b beside the a the store had
C14_Witness ==
    /\ lastCall.op = "merge"
    /\ lastCall.action = "replaceable"
    /\ err = ""
    /\ nOps = 1
    /\ IsLeafPath(lastCall.tree, <<Names[1], Names[2]>>)
    /\ MapGet(store, DotKey(Names[1], Names[2])) = Num(1)
    /\ ~IsRef(MapGet(store, Names[1]))
    /\ MapHas(store, Names[1])

\* ------------------------------------------------------------------------
\* buildConfig
\* ------------------------------------------------------------------------

\* the layers of buildConfig for the tree given to the constructor, the
\* earliest first
Layers(tree) ==
    <<ConfigTemplate(tree), tree, EnvConfig(tree, NodeEnv), ObjN(<< <<"env", LeafN(NodeEnv)>> >>)>>
\* the last layer with a sub-value at the path
Defines(tree, path) == {i \in 1..Len(Layers(tree)) : Reaches(Layers(tree)[i], path)}
Latest(tree, path) == CHOOSE i \in Defines(tree, path) : \A j \in Defines(tree, path) : j <= i

\* C15: in the configuration built from a tree, a path at which the last
\* layer that defines it has a leaf or a list maps to exactly that leaf or
\* list: no element of a list of an earlier layer survives.
C15_LaterLayerWins ==
    (lastCall.op = "constructor" /\ err = "") =>
        \A path \in {<<Names[1]>>, <<"env">>, <<"main", "maxListeners">>, <<"main", "spools">>} :
            (Defines(lastCall.tree, path) # {}
             /\ Walk(Layers(lastCall.tree)[Latest(lastCall.tree, path)], path).t # "obj")
                => Deep(heap, MapGet(store, Join(path))) =
                       Walk(Layers(lastCall.tree)[Latest(lastCall.tree, path)], path)

\* ------------------------------------------------------------------------
\* after and onceAny
\* ------------------------------------------------------------------------

\* name was emitted
Fired(name) == \E k \in 1..Len(emitLog) : emitLog[k][1] = name
\* one of the names of the element was emitted
ElementFired(el) == \E j \in 1..Len(el.names) : Fired(el.names[j])
\* the k-th emission is the first of a name of the element
FirstOf(el, k) ==
    /\ \E j \in 1..Len(el.names) : emitLog[k][1] = el.names[j]
    /\ \A m \in 1..(k - 1) : \A j \in 1..Len(el.names) : emitLog[m][1] # el.names[j]
AfterCalls == {id \in DOMAIN calls : calls[id].op = "after"}

\* C16: a call of after(list) is resolved only in states where every element
\* of the list has been satisfied: one of its names has fired at least once.
C16_AfterNeedsAll ==
    \A id \in AfterCalls :
        pc[id] # "waiting" =>
            \A i \in 1..Len(calls[id].arg.items) : ElementFired(calls[id].arg.items[i])

\* after(['A', 'B']) resolved with B emitted first and A second
C16_Witness ==
    \E id \in AfterCalls :
        /\ calls[id].arg = ListArg(<<AName("A"), AName("B")>>)
        /\ calls[id].at = 0
        /\ pc[id] = "resolved"
        /\ Len(emitLog) = 2
        /\ emitLog[1][1] = "B"
        /\ emitLog[2][1] = "A"

\* C17: a signal that fired before the call of after counts as one that
\* fires after it: whenever every element of the list has fired, before or
\* after the call, the call is resolved (at once when all had fired before
\* it, as soon as the last one fires otherwise).
C17_FiredBeforeCounts ==
    \A id \in AfterCalls :
        (\A i \in 1..Len(calls[id].arg.items) : ElementFired(calls[id].arg.items[i]))
            => pc[id] # "waiting"

\* A emitted, then after(['A', 'B']) called, then B emitted: resolved
C17_Witness ==
    \E id \in AfterCalls :
        /\ calls[id].arg = ListArg(<<AName("A"), AName("B")>>)
        /\ calls[id].at = 1
        /\ emitLog[1][1] = "A"
        /\ Len(emitLog) = 2
        /\ emitLog[2][1] = "B"
        /\ pc[id] = "resolved"

\* C18: after([['A', 'B'], 'C']) is resolved exactly when C has fired and
\* one of A, B has fired.
C18_AlternativeGroup ==
    \A id \in AfterCalls :
        calls[id].arg = ListArg(<<AGroup(<<"A", "B">>), AName("C")>>) =>
            (pc[id] # "waiting" <=> (Fired("C") /\ (Fired("A") \/ Fired("B"))))

\* after([['A', 'B'], 'C']) resolved with C and B emitted, A never
C18_Witness ==
    \E id \in AfterCalls :
        /\ calls[id].arg = ListArg(<<AGroup(<<"A", "B">>), AName("C")>>)
        /\ calls[id].at = 0
        /\ pc[id] = "resolved"
        /\ Fired("B")
        /\ Fired("C")
        /\ ~Fired("A")

\* C19: the value after(list) resolves with is an array as long as the list,
\* its i-th slot the payload of the first emission that satisfied element i.
C19_ResultsByPosition ==
    \A id \in AfterCalls :
        pc[id] = "resolved" =>
            /\ calls[id].value.t = "arr"
            /\ Len(calls[id].value.kids) = Len(calls[id].arg.items)
            /\ \A i \in 1..Len(calls[id].arg.items) :
                  \E k \in 1..Len(emitLog) :
                      /\ FirstOf(calls[id].arg.items[i], k)
                      /\ calls[id].value.kids[i][2] = LeafN(emitLog[k][2])

\* after(['A', 'B']) with B emitted first (payload 1), then A twice (payloads
\* 2 and 3): the results are [2, 1]
C19_Witness ==
    \E id \in AfterCalls :
        /\ calls[id].arg = ListArg(<<AName("A"), AName("B")>>)
        /\ calls[id].at = 0
        /\ pc[id] = "resolved"
        /\ emitLog = << <<"B", Num(1)>>, <<"A", Num(2)>>, <<"A", Num(3)>> >>
        /\ calls[id].value = ArrN(<<LeafN(Num(2)), LeafN(Num(1))>>)

\* C20: onceAny(A) resolves once, with the payload of the first emission of
\* A itself, not with an array that holds it.
C20_OnceAnyPayload ==
    \A id \in DOMAIN calls :
        (calls[id].op = "onceAny" /\ pc[id] = "resolved") =>
            /\ calls[id].settled = 1
            /\ \E k \in 1..Len(emitLog) :
                  /\ FirstOf(calls[id].arg.items[1], k)
                  /\ calls[id].value = LeafN(emitLog[k][2])

\* ------------------------------------------------------------------------
\* The waits of the lifecycle
\* ------------------------------------------------------------------------

\* C21: the wait a chain starts from resolves at most once, however often
\* its signals are emitted again (fabrix:start or a barrier, MaxAgain times,
\* also while waits over several signals are pending): a chain that was
\* resolved is never pending or resolved again, a hook that was called is
\* never called again, every completion signal spool:<name>:<phase> is
\* emitted at most once, and Core emits every barrier spool:all:<phase> at
\* most once: the chain of the barrier, once done, stays done, and every
\* emission of the barrier is either the one step of that chain from its
\* emit job to done or an emission of the surroundings after it.
C21_AtMostOnce ==
    [][/\ \A c \in DOMAIN pc :
             /\ pc[c] # "waiting" => pc'[c] # "waiting"
             /\ pc[c] \notin {"waiting", "settle"} => pc'[c] # "settle"
             /\ HookInvoked(c) => pc'[c] \in AfterInvoke
             /\ pc[c] = "done" => pc'[c] = "done"
       /\ \A ph \in Phases :
             /\ emits'[AllEvent(ph)] > emits[AllEvent(ph)] =>
                   /\ pc'[<<0, ph>>] = "done"
                   /\ pc[<<0, ph>>] = (IF emits[AllEvent(ph)] = 0 THEN "emit" ELSE "done")
             /\ \A p \in Registered : emits'[SpoolEvent(p, ph)] <= 1]_vars

\* spool:all:validated was emitted again while the configure wait of the
\* second spool, over spool:P1:configured and spool:all:validated, was
\* pending with the barrier already counted
C21_Witness ==
    /\ Len(spools) = 2
    /\ spools[2].configure = << <<SpoolEvent(1, "configure")>> >>
    /\ emits[AllEvent("validate")] = 2
    /\ pc[<<2, "configure">>] = "waiting"
    /\ HookInvoked(<<1, "configure">>)

\* the name of the emission a step makes, "" when it makes none
EmittedNow == IF Len(emitLog') > Len(emitLog) THEN emitLog'[Len(emitLog')][1] ELSE ""
\* element el of a list passed to after references name
References(el, name) == \E j \in 1..Len(el.names) : el.names[j] = name

\* C22: pending calls of after are independent. A step that emits X
\* satisfies, in every pending call, every pending element that references
\* X and no other element; a step that emits nothing (a call of after or
\* onceAny, the resolution of a call) leaves the elements of every call as
\* they are; no step makes a satisfied element pending again, and a step
\* makes a pending call resolved only by an emission that satisfies the
\* last of its own elements.
C22_IndependentWaits ==
    [][\A id \in DOMAIN calls :
          /\ \A i \in 1..Len(calls[id].arg.items) :
                IF pc[id] = "waiting"
                THEN waits'[id].pending[i] =
                        (waits[id].pending[i] /\ ~References(calls[id].arg.items[i], EmittedNow))
                ELSE waits'[id].pending[i] = waits[id].pending[i]
          /\ (pc[id] = "waiting" /\ pc'[id] # "waiting") =>
                \E i \in 1..Len(calls[id].arg.items) :
                    waits[id].pending[i] /\ References(calls[id].arg.items[i], EmittedNow)]_vars

\* after(['A', 'B']) and after(['B', 'C']) both pending and B emitted once:
\* the second element of the first and the first element of the second are
\* satisfied, the other two pending
C22_Witness ==
    /\ Len(calls) = 2
    /\ calls[1].arg = ListArg(<<AName("A"), AName("B")>>)
    /\ calls[2].arg = ListArg(<<AName("B"), AName("C")>>)
    /\ calls[2].at = 0
    /\ emitLog = << <<"B", Num(1)>> >>
    /\ waits[1].pending = <<TRUE, FALSE>>
    /\ waits[2].pending = <<FALSE, TRUE>>

\* ------------------------------------------------------------------------
\* The configuration during the lifecycle
\* ------------------------------------------------------------------------

\* some spool has not completed its configure phase
BeforeConfigured == \E p \in Registered : StageIndex(stage[p]) < StageIndex("configured")

\* C23: in every state where the stage of some spool is before configured
\* the configuration is not immutable, and a config.set called while a
\* configure hook is running, however the hooks interleave, does not throw
\* and stores the value: after every step taken while a configure hook is
\* running, if the last call on the configuration is a set, it did not throw
\* and the store has the value.
C23_MutableWhileConfiguring ==
    /\ [](BeforeConfigured => ~immutable)
    /\ [][\A p \in Registered :
             (HookRunning(<<p, "configure">>) /\ lastCall'.op = "set") =>
                 err' = "" /\ MapGet(store', HookKey) = HookValue]_vars

\* the configure hooks of two spools are running, a synchronous one and one
\* whose promise the chain awaits, and one of them has set a value in the
\* configuration
C23_Witness ==
    /\ Len(spools) = 2
    /\ pc[<<1, "configure">>] = "running"
    /\ pc[<<2, "configure">>] = "awaiting"
    /\ lastCall.op = "set"
    /\ err = ""
    /\ MapGet(store, HookKey) = HookValue
    /\ ~immutable

\* the step emits name
EmitsNow(name) == emits'[name] > emits[name]
\* the stage of every spool, before and after the step, is s or later
AllAtLeast(s) ==
    \A p \in Registered :
        /\ StageIndex(stage[p]) >= StageIndex(s)
        /\ StageIndex(stage'[p]) >= StageIndex(s)

Following(st, at, queue, p, ph) ==
    \/ StageIndex(st[p]) >= StageIndex(Completed(ph))
    \/ /\ st[p] = InProgress(ph)
       /\ at[<<p, ph>>] = "stageDone"
       /\ queue # <<>> /\ Head(queue) = <<p, ph>>

C25_FrozenMergeNoChange ==
    [][(immutable /\ nOps' = nOps + 1 /\ lastCall'.op = "merge") =>
          /\ store' = store
          /\ DeepStore(heap', store') = DeepStore(heap, store)]_vars
====
